---- MODULE Spec2Model ----
(***************************************************************************)
(* Model of openage's texture-atlas entry construction                     *)
(* (convert/entity_object/export/texture.py: TextureImage, Texture) and of *)
(* the RoR sound flattener (convert/entity_object/conversion/ror/          *)
(* genie_sound.py: RoRSound.get_sounds).                                   *)
(*                                                                         *)
(* Python values are encoded as follows:                                   *)
(*   None            the empty sequence <<>>; a value x that may be None   *)
(*                   is carried as <<x>> (Some(x)).                        *)
(*   list / tuple    a sequence.                                           *)
(*   dict            a function.                                           *)
(*   object          a record of its attributes.                           *)
(*   raise           a result record with ok = FALSE and the exception.    *)
(***************************************************************************)
EXTENDS Integers, Sequences, FiniteSets, TLC

VARIABLES
    pc,           \* position of Texture.__init__: idle, for_palette, for_sld, done, failed
    args,         \* the arguments of Texture.__init__
    self,         \* the attributes of the Texture object
    input_frames, \* frames of the for loop not iterated yet
    error,        \* the exception Texture.__init__ raised, if any
    calls,        \* calls made to the collaborators (frame provider, palette table, cutter)
    ret,          \* the latest call of an accessor of Texture and what it returned
    attached,     \* number of writes of the external packer/encoder
    image_arg,    \* arguments of the latest TextureImage(...) call
    image,        \* its result
    image_ret,    \* the latest accessor call on that TextureImage
    sound,        \* the RoRSound object: its sound table
    sound_call    \* the latest get_sounds call: argument and result

vars == <<pc, args, self, input_frames, error, calls, ret, attached,
          image_arg, image, image_ret, sound, sound_call>>

texture_vars == <<pc, args, self, input_frames, error, calls, ret, attached>>
image_vars == <<image_arg, image, image_ret>>
sound_vars == <<sound, sound_call>>

---------------------------------------------------------------------------
(* Bounds of the model. *)

\* most frames in one layer of a source container, and most alpha masks
MaxFrames == 3
\* largest extent of one axis of a picture
MaxDim == 2
\* most items in a sound table
MaxItems == 3

---------------------------------------------------------------------------
(* Python values. *)

None == <<>>
Some(x) == <<x>>

Ok(v) == [ok |-> TRUE, value |-> Some(v), error |-> None]
Raise(e) == [ok |-> FALSE, value |-> None, error |-> Some(e)]

RECURSIVE Concat(_)
Concat(lists) ==
    IF lists = <<>> THEN <<>> ELSE Head(lists) \o Concat(Tail(lists))

---------------------------------------------------------------------------
(* TextureImage. *)

ImageModes == {"RGBA", "RGB", "L", "P"}

\* PIL: Image.convert(mode) keeps the size and re-encodes the pixels.
convert(picture_data, mode) ==
    [picture_data EXCEPT
        !.mode = mode,
        !.content = [converted |-> picture_data.content, src_mode |-> picture_data.mode]]

\* numpy.array(image): an array of shape (height, width, bands); an RGBA
\* image has 4 bands.
Bands(mode) == CASE mode = "RGBA" -> 4 [] mode = "RGB" -> 3 [] OTHER -> 1

numpy_array(picture_data) ==
    [type |-> "ndarray",
     shape |-> <<picture_data.size[2], picture_data.size[1], Bands(picture_data.mode)>>,
     content |-> picture_data.content]

ValueError(type) ==
    [exc |-> "ValueError",
     msg |-> "Texture image must be created from PIL Image or numpy array, not",
     arg |-> type]

\* picture_data.shape[0] or picture_data.shape[1] on a shorter shape tuple
IndexError ==
    [exc |-> "IndexError", msg |-> "tuple index out of range", arg |-> "shape"]

AttributeError(type) ==
    [exc |-> "AttributeError", msg |-> "object has no attribute 'shape'", arg |-> type]

\* TextureImage.__init__ without its isinstance check of picture_data
TextureImage_NoTypeCheck(picture_data, hotspot) ==
    LET pd == IF picture_data.type = "Image"
              THEN numpy_array(IF picture_data.mode # "RGBA"
                               THEN convert(picture_data, "RGBA")
                               ELSE picture_data)
              ELSE picture_data
    IN  IF pd.type # "ndarray"
        THEN Raise(AttributeError(picture_data.type))
        ELSE IF Len(pd.shape) < 2
        THEN Raise(IndexError)
        ELSE Ok([height |-> pd.shape[1],
                 width |-> pd.shape[2],
                 hotspot |-> IF hotspot = None THEN <<0, 0>> ELSE hotspot[1],
                 data |-> pd])

\* TextureImage.__init__
TextureImage(picture_data, hotspot) ==
    LET pd == IF picture_data.type = "Image"
              THEN numpy_array(IF picture_data.mode # "RGBA"
                               THEN convert(picture_data, "RGBA")
                               ELSE picture_data)
              ELSE picture_data
    IN  IF pd.type # "ndarray"
        THEN Raise(ValueError(picture_data.type))
        ELSE IF Len(pd.shape) < 2
        THEN Raise(IndexError)
        ELSE Ok([height |-> pd.shape[1],
                 width |-> pd.shape[2],
                 hotspot |-> IF hotspot = None THEN <<0, 0>> ELSE hotspot[1],
                 data |-> pd])

CannotHandle ==
    [exc |-> "TypeError", msg |-> "Cannot handle this data type", arg |-> "shape"]

\* PIL: Image.fromarray(array): the mode follows from the number of bands;
\* an array that is not (h, w), (h, w, 3) or (h, w, 4) is refused.
fromarray(data) ==
    LET n == Len(data.shape)
    IN  IF n = 2 \/ (n = 3 /\ data.shape[3] \in {3, 4})
        THEN Ok([type |-> "Image",
                 mode |-> IF n = 2 THEN "L" ELSE IF data.shape[3] = 4 THEN "RGBA" ELSE "RGB",
                 size |-> <<data.shape[2], data.shape[1]>>,
                 content |-> data.content])
        ELSE Raise(CannotHandle)

get_pil_image(img) == fromarray(img.data)

get_data(img) == img.data

---------------------------------------------------------------------------
(* The collaborators of Texture: frame providers, palette table, cutter.   *)

PaletteKinds == {"SLP", "SMP", "SMX"}
\* GenieStructure and NoneType stand for the types Texture.__init__ has no
\* branch for
Kinds == PaletteKinds \cup {"SLD", "BlendingMode", "GenieStructure", "NoneType"}
Layers == {0, 1}
PaletteNumbers == {None, Some(0), Some(1)}
Cutters == {"split2", "bywidth"}

FrameId(frame) == <<frame.layer, frame.index>>

\* SLPFrame / SMPLayer / SMXLayer
get_palette_number(frame) == frame.palette_number

get_hotspot(frame) == <<frame.index, frame.layer>>

get_picture_data(frame, main_palette) ==
    [type |-> "ndarray",
     shape |-> <<1, frame.index, 4>>,
     content |-> [frame |-> FrameId(frame), palette |-> main_palette]]

\* SLDLayer.get_picture_data(): the frame carries its own colours
sld_get_picture_data(frame) ==
    [type |-> "ndarray",
     shape |-> <<1, frame.index, 4>>,
     content |-> [frame |-> FrameId(frame), palette |-> None]]

\* a tile of BlendingMode.alphamasks
tile_get_picture_data(tile) ==
    [type |-> "ndarray",
     shape |-> <<1, 1, 4>>,
     content |-> [frame |-> <<2, tile.index>>, palette |-> None]]

TILE_HALFSIZE == [x |-> 48, y |-> 24]

\* input_data.get_frames(layer)
get_frames(input_data, layer) == input_data.frames[layer + 1]

\* ColorTable: the table as read from the palette file and its colour array
ColorTable(k) == [header |-> "JASC-PAL", array |-> [colors |-> k]]

\* InterfaceCutter.cut(image): the fragments of image, each a TextureImage
Fragment(subtex, j) ==
    [subtex EXCEPT !.width = 1,
                   !.data.shape = <<subtex.height, 1, 4>>,
                   !.data.content = [part |-> j, of |-> subtex.data.content]]

cut(cutter, subtex) ==
    IF cutter = "split2"
    THEN <<Fragment(subtex, 1), Fragment(subtex, 2)>>
    ELSE [j \in 1..subtex.width |-> Fragment(subtex, j)]

---------------------------------------------------------------------------
(* The arguments Texture.__init__ is called with. *)

PalettePatterns == [{0, 1} -> PaletteNumbers]

FramesOf(layer, n, pattern) ==
    [i \in 1..n |-> [layer |-> layer, index |-> i, palette_number |-> pattern[i % 2]]]

NoPalettePattern == [b \in {0, 1} |-> None]

PaletteSources ==
    {[kind |-> k,
      frames |-> <<FramesOf(0, n0, p), FramesOf(1, n1, p)>>,
      alphamasks |-> <<>>] :
        k \in PaletteKinds, n0 \in 0..MaxFrames, n1 \in 0..MaxFrames, p \in PalettePatterns}

SLDSources ==
    {[kind |-> "SLD",
      frames |-> <<FramesOf(0, n0, NoPalettePattern), FramesOf(1, n1, NoPalettePattern)>>,
      alphamasks |-> <<>>] :
        n0 \in 0..MaxFrames, n1 \in 0..MaxFrames}

BlendingSources ==
    {[kind |-> "BlendingMode",
      frames |-> <<<<>>, <<>>>>,
      alphamasks |-> [i \in 1..m |-> [index |-> i]]] : m \in 0..MaxFrames}

UnknownSources ==
    {[kind |-> k, frames |-> <<<<>>, <<>>>>, alphamasks |-> <<>>] :
        k \in Kinds \ (PaletteKinds \cup {"SLD", "BlendingMode"})}

PaletteTables ==
    {None} \cup {Some([k \in K |-> ColorTable(k)]) : K \in {{0}, {0, 1}}}

CutterArgs == {None} \cup {Some(c) : c \in Cutters}

ArgsOf(sources) ==
    [input_data : sources, palettes : PaletteTables,
     custom_cutter : CutterArgs, layer : Layers]

NoArgs ==
    [input_data |-> [kind |-> "none", frames |-> <<<<>>, <<>>>>, alphamasks |-> <<>>],
     palettes |-> None, custom_cutter |-> None, layer |-> 0]

NoCalls == [get_frames |-> <<>>, lookups |-> <<>>, picture |-> <<>>, cut |-> <<>>]

NoRet == [op |-> "none", arg |-> None, value |-> None, attached |-> 0]

---------------------------------------------------------------------------
(* Texture.__init__ *)

EmptyDict == [k \in {} |-> None]

\* NewTexture with a default compression level set by the constructor
NewTexture_PresetCompr ==
    [best_packer_hints |-> None,
     image_data |-> None,
     image_metadata |-> EmptyDict,
     best_compr |-> Some(<<9, 1>>),
     frames |-> <<>>]

\* NewTexture with the packer hints started as an empty tuple instead of None
NewTexture_EagerHints ==
    [best_packer_hints |-> Some(<<>>),
     image_data |-> None,
     image_metadata |-> EmptyDict,
     best_compr |-> None,
     frames |-> <<>>]

\* the attributes set before the dispatch on the type of input_data
NewTexture ==
    [best_packer_hints |-> None,
     image_data |-> None,
     image_metadata |-> EmptyDict,
     best_compr |-> None,
     frames |-> <<>>]

TypeError ==
    [exc |-> "TypeError", msg |-> "'NoneType' object is not subscriptable", arg |-> "palettes"]

KeyError(k) == [exc |-> "KeyError", msg |-> "", arg |-> ToString(k)]

UnknownSourceType(type) ==
    [exc |-> "Exception",
     msg |-> "cannot create Texture from unknown source type:",
     arg |-> type]

\* ResolvePalette falling back to palette 0 for a frame without a palette number
ResolvePalette_DefaultPalette(palette_number, palettes) ==
    LET k == IF palette_number = None THEN 0 ELSE palette_number[1]
    IN  IF palettes = None
        THEN [result |-> Raise(TypeError), lookups |-> <<k>>]
        ELSE IF k \notin DOMAIN palettes[1]
        THEN [result |-> Raise(KeyError(k)), lookups |-> <<k>>]
        ELSE [result |-> Ok(Some(palettes[1][k].array)), lookups |-> <<k>>]

\* palette_number = frame.get_palette_number() and the choice of main_palette:
\* the palette to use, or the exception of the lookup, and the keys looked up
ResolvePalette(palette_number, palettes) ==
    IF palette_number = None
    THEN [result |-> Ok(None), lookups |-> <<>>]
    ELSE LET k == palette_number[1]
         IN  IF palettes = None
             THEN [result |-> Raise(TypeError), lookups |-> <<k>>]
             ELSE IF k \notin DOMAIN palettes[1]
             THEN [result |-> Raise(KeyError(k)), lookups |-> <<k>>]
             ELSE [result |-> Ok(Some(palettes[1][k].array)), lookups |-> <<k>>]

\* Texture._to_subtextures: the list it returns (or the exception of
\* TextureImage) and the images handed to the cutter
to_subtextures(frame, main_palette, custom_cutter) ==
    LET subtex == TextureImage(get_picture_data(frame, main_palette),
                               Some(get_hotspot(frame)))
    IN  IF ~subtex.ok
        THEN [result |-> subtex, cut |-> <<>>]
        ELSE IF custom_cutter # None
        THEN [result |-> Ok(cut(custom_cutter[1], subtex.value[1])),
              cut |-> <<FrameId(frame)>>]
        ELSE [result |-> Ok(<<subtex.value[1]>>), cut |-> <<>>]

\* extend putting the new fragments in front
extend_Prepend(frames, subtextures) == subtextures \o frames

\* self.frames.extend(iter(...))
extend(frames, subtextures) == frames \o subtextures

\* SLDInputFrames without the retry at layer 1
SLDInputFrames_NoFallback(input_data, layer) ==
    [frames |-> get_frames(input_data, layer), get_frames |-> <<layer>>]

\* the frames the SLD branch iterates, and the layers it enumerated
SLDInputFrames(input_data, layer) ==
    LET first == get_frames(input_data, layer)
    IN  IF layer = 0 /\ Len(first) = 0
        THEN [frames |-> get_frames(input_data, 1), get_frames |-> <<layer, 1>>]
        ELSE [frames |-> first, get_frames |-> <<layer>>]

\* the body of the SLD branch's for loop: the TextureImage to append, or its
\* exception
SLDSubtexture(frame) ==
    TextureImage(sld_get_picture_data(frame), Some(get_hotspot(frame)))

\* BlendingFrames with the coordinates of the hotspot swapped
BlendingFrames_SwappedHotspot(input_data) ==
    [i \in 1..Len(input_data.alphamasks) |->
        TextureImage(tile_get_picture_data(input_data.alphamasks[i]),
                     Some(<<TILE_HALFSIZE.y, 0>>)).value[1]]

\* the list comprehension of the BlendingMode branch
BlendingFrames(input_data) ==
    [i \in 1..Len(input_data.alphamasks) |->
        TextureImage(tile_get_picture_data(input_data.alphamasks[i]),
                     Some(<<0, TILE_HALFSIZE.y>>)).value[1]]

InitPaletteIndexed ==
    /\ pc = "idle"
    /\ \E a \in ArgsOf(PaletteSources) :
        /\ a.input_data.kind \in PaletteKinds
        /\ args' = a
        /\ self' = Some(NewTexture)
        /\ input_frames' = get_frames(a.input_data, a.layer)
        /\ calls' = [calls EXCEPT !.get_frames = Append(@, a.layer)]
    /\ pc' = "for_palette"
    /\ ret' = NoRet
    /\ UNCHANGED <<error, attached,
                 image_vars, sound_vars>>

PaletteFrameStep ==
    /\ pc = "for_palette"
    /\ input_frames # <<>>
    /\ LET frame == Head(input_frames)
           palette_number == get_palette_number(frame)
           pal == ResolvePalette(palette_number, args.palettes)
           looked == [i \in 1..Len(pal.lookups) |->
                        [frame |-> FrameId(frame), key |-> pal.lookups[i]]]
       IN  IF ~pal.result.ok
           THEN /\ pc' = "failed"
                /\ error' = pal.result.error
                /\ calls' = [calls EXCEPT !.lookups = @ \o looked]
                /\ UNCHANGED <<self, input_frames>>
           ELSE LET main_palette == pal.result.value[1]
                    sub == to_subtextures(frame, main_palette, args.custom_cutter)
                    seen == [calls EXCEPT
                               !.lookups = @ \o looked,
                               !.picture = Append(@, [frame |-> FrameId(frame),
                                                      palette_number |-> palette_number,
                                                      palette |-> main_palette]),
                               !.cut = @ \o sub.cut]
                IN  IF ~sub.result.ok
                    THEN /\ pc' = "failed"
                         /\ error' = sub.result.error
                         /\ calls' = seen
                         /\ UNCHANGED <<self, input_frames>>
                    ELSE /\ self' = Some([self[1] EXCEPT
                                            !.frames = extend(@, sub.result.value[1])])
                         /\ input_frames' = Tail(input_frames)
                         /\ calls' = seen
                         /\ UNCHANGED <<pc, error>>
    /\ UNCHANGED <<args, ret, attached,
                 image_vars, sound_vars>>

PaletteLoopEnd ==
    /\ pc = "for_palette"
    /\ input_frames = <<>>
    /\ pc' = "done"
    /\ UNCHANGED <<args, self, input_frames, error, calls, ret, attached,
                 image_vars, sound_vars>>

InitSLD ==
    /\ pc = "idle"
    /\ \E a \in ArgsOf(SLDSources) :
        /\ a.input_data.kind = "SLD"
        /\ args' = a
        /\ self' = Some(NewTexture)
        /\ LET found == SLDInputFrames(a.input_data, a.layer)
           IN  /\ input_frames' = found.frames
               /\ calls' = [calls EXCEPT !.get_frames = @ \o found.get_frames]
    /\ pc' = "for_sld"
    /\ ret' = NoRet
    /\ UNCHANGED <<error, attached,
                 image_vars, sound_vars>>

\* SLDFrameStep going through _to_subtextures, as the palette branch does
SLDFrameStep_Cut ==
    /\ pc = "for_sld"
    /\ input_frames # <<>>
    /\ LET frame == Head(input_frames)
           sub == to_subtextures(frame, None, args.custom_cutter)
       IN  /\ sub.result.ok
           /\ self' = Some([self[1] EXCEPT
                              !.frames = extend(@, sub.result.value[1])])
           /\ input_frames' = Tail(input_frames)
           /\ calls' = [calls EXCEPT
                          !.picture = Append(@, [frame |-> FrameId(frame),
                                                 palette_number |-> None,
                                                 palette |-> None]),
                          !.cut = @ \o sub.cut]
    /\ UNCHANGED <<pc, error, args, ret, attached, image_vars, sound_vars>>

SLDFrameStep ==
    /\ pc = "for_sld"
    /\ input_frames # <<>>
    /\ LET frame == Head(input_frames)
           subtex == SLDSubtexture(frame)
           seen == [calls EXCEPT
                      !.picture = Append(@, [frame |-> FrameId(frame),
                                             palette_number |-> None,
                                             palette |-> None])]
       IN  IF ~subtex.ok
           THEN /\ pc' = "failed"
                /\ error' = subtex.error
                /\ calls' = seen
                /\ UNCHANGED <<self, input_frames>>
           ELSE /\ self' = Some([self[1] EXCEPT
                                   !.frames = Append(@, subtex.value[1])])
                /\ input_frames' = Tail(input_frames)
                /\ calls' = seen
                /\ UNCHANGED <<pc, error>>
    /\ UNCHANGED <<args, ret, attached,
                 image_vars, sound_vars>>

SLDLoopEnd ==
    /\ pc = "for_sld"
    /\ input_frames = <<>>
    /\ pc' = "done"
    /\ UNCHANGED <<args, self, input_frames, error, calls, ret, attached,
                 image_vars, sound_vars>>

InitBlendingMode ==
    /\ pc = "idle"
    /\ \E a \in ArgsOf(BlendingSources) :
        /\ a.input_data.kind = "BlendingMode"
        /\ args' = a
        /\ self' = Some([NewTexture EXCEPT !.frames = BlendingFrames(a.input_data)])
    /\ pc' = "done"
    /\ ret' = NoRet
    /\ UNCHANGED <<input_frames, error, calls, attached,
                 image_vars, sound_vars>>

\* the else branch leaving an empty texture instead of raising
UnknownSourceOutcome_Accept(type) == [pc |-> "done", error |-> None]

\* the else branch: the exception raised for a source of the given type
UnknownSourceOutcome(type) ==
    [pc |-> "failed", error |-> Some(UnknownSourceType(type))]

InitUnknown ==
    /\ pc = "idle"
    /\ \E a \in ArgsOf(UnknownSources) :
        /\ a.input_data.kind \notin PaletteKinds \cup {"SLD", "BlendingMode"}
        /\ args' = a
        /\ self' = Some(NewTexture)
        /\ pc' = UnknownSourceOutcome(a.input_data.kind).pc
        /\ error' = UnknownSourceOutcome(a.input_data.kind).error
    /\ ret' = NoRet
    /\ UNCHANGED <<input_frames, calls, attached,
                 image_vars, sound_vars>>

---------------------------------------------------------------------------
(* The accessors of Texture, and the external packer/encoder. *)

GameVersions == {"AoC", "RoR"}

get_metadata(tex) == tex.image_metadata

get_cache_params(tex) == <<tex.best_packer_hints, tex.best_compr>>

get_data_format_members(game_version) ==
    << <<TRUE, "x", None, "int32_t">>,
       <<TRUE, "y", None, "int32_t">>,
       <<TRUE, "w", None, "int32_t">>,
       <<TRUE, "h", None, "int32_t">>,
       <<TRUE, "cx", None, "int32_t">>,
       <<TRUE, "cy", None, "int32_t">> >>

GetMetadata ==
    /\ pc = "done"
    /\ ret' = [op |-> "get_metadata", arg |-> None,
               value |-> Some(get_metadata(self[1])), attached |-> attached]
    /\ UNCHANGED <<pc, args, self, input_frames, error, calls, attached,
                 image_vars, sound_vars>>

GetCacheParams ==
    /\ pc = "done"
    /\ ret' = [op |-> "get_cache_params", arg |-> None,
               value |-> Some(get_cache_params(self[1])), attached |-> attached]
    /\ UNCHANGED <<pc, args, self, input_frames, error, calls, attached,
                 image_vars, sound_vars>>

GetDataFormatMembers ==
    /\ pc = "done"
    /\ \E game_version \in GameVersions :
        ret' = [op |-> "get_data_format_members", arg |-> Some(game_version),
                value |-> Some(get_data_format_members(game_version)),
                attached |-> attached]
    /\ UNCHANGED <<pc, args, self, input_frames, error, calls, attached,
                 image_vars, sound_vars>>

\* what the packer and the encoder computed for the entries of a texture:
\* a position per entry, and the compression parameters
PackerHints(frames) == [i \in 1..Len(frames) |-> <<i, 0>>]

CompressionParams == <<9, 1>>

\* the packer/encoder writes its results into the constructed texture, once
AttachCacheParams ==
    /\ pc = "done"
    /\ attached = 0
    /\ self' = Some([self[1] EXCEPT
                       !.best_packer_hints = Some(PackerHints(self[1].frames)),
                       !.best_compr = Some(CompressionParams)])
    /\ attached' = attached + 1
    /\ UNCHANGED <<pc, args, input_frames, error, calls, ret,
                 image_vars, sound_vars>>

---------------------------------------------------------------------------
(* Calls of TextureImage and of its accessors. *)

Extents == (1..MaxDim) \cup {4}

Shapes == UNION {[1..n -> Extents] : n \in 0..4}

PictureInputs ==
    {[type |-> "Image", mode |-> m, size |-> <<w, h>>, content |-> [pixels |-> "bitmap"]] :
        m \in ImageModes, w \in 1..MaxDim, h \in 1..MaxDim}
    \cup {[type |-> "ndarray", shape |-> sh, content |-> [pixels |-> "array"]] : sh \in Shapes}
    \cup {[type |-> t, content |-> [pixels |-> "none"]] : t \in {"NoneType", "list", "str"}}

HotspotArgs == {None, Some(<<0, 0>>), Some(<<3, -2>>)}

NoImageRet == [op |-> "none", value |-> None]

TextureImageInit ==
    /\ \E picture_data \in PictureInputs, hotspot \in HotspotArgs :
        /\ image_arg' = Some([picture_data |-> picture_data, hotspot |-> hotspot])
        /\ image' = Some(TextureImage(picture_data, hotspot))
    /\ image_ret' = NoImageRet
    /\ UNCHANGED <<texture_vars, sound_vars>>

GetPilImage ==
    /\ image # None
    /\ image[1].ok
    /\ image_ret' = [op |-> "get_pil_image", value |-> Some(get_pil_image(image[1].value[1]))]
    /\ UNCHANGED <<image_arg, image, texture_vars, sound_vars>>

GetData ==
    /\ image # None
    /\ image[1].ok
    /\ image_ret' = [op |-> "get_data", value |-> Some(get_data(image[1].value[1]))]
    /\ UNCHANGED <<image_arg, image, texture_vars, sound_vars>>

---------------------------------------------------------------------------
(* RoRSound.get_sounds *)

\* largest civilization id passed to get_sounds
MaxCiv == 2

ResourceIds == {5, 9, 12}

SoundTables ==
    UNION {[1..n -> {[resource_id |-> [value |-> r]] : r \in ResourceIds}] : n \in 0..MaxItems}

\* an argument left out takes the default of the signature
CivArgs == {None} \cup {Some(c) : c \in -1..MaxCiv}

\* get_sounds selecting by civilization, as richer formats do: RoR items
\* carry no civilization, so a concrete civ_id selects nothing
get_sounds_FilterCiv(snd, civ_id) ==
    LET sound_items == snd.sound_items.value
    IN  IF civ_id = -1
        THEN [i \in 1..Len(sound_items) |-> sound_items[i].resource_id.value]
        ELSE <<>>

\* RoRSound.get_sounds
get_sounds(snd, civ_id) ==
    LET sound_items == snd.sound_items.value
    IN  [i \in 1..Len(sound_items) |-> sound_items[i].resource_id.value]

GetSounds ==
    /\ \E civ \in CivArgs :
        LET civ_id == IF civ = None THEN -1 ELSE civ[1]
        IN  sound_call' = Some([civ |-> civ, result |-> get_sounds(sound, civ_id)])
    /\ UNCHANGED <<sound, texture_vars, image_vars>>

---------------------------------------------------------------------------
(* Specifications. *)

TextureIdle ==
    /\ pc = "idle"
    /\ args = NoArgs
    /\ self = None
    /\ input_frames = <<>>
    /\ error = None
    /\ calls = NoCalls
    /\ ret = NoRet
    /\ attached = 0

ImageIdle ==
    /\ image_arg = None
    /\ image = None
    /\ image_ret = NoImageRet

SoundIdle ==
    /\ sound = [sound_items |-> [value |-> <<>>]]
    /\ sound_call = None

\* Texture: construction, accessors, attachment of the packer's results
Init == TextureIdle /\ ImageIdle /\ SoundIdle

Next ==
    \/ InitPaletteIndexed
    \/ PaletteFrameStep
    \/ PaletteLoopEnd
    \/ InitSLD
    \/ SLDFrameStep
    \/ SLDLoopEnd
    \/ InitBlendingMode
    \/ InitUnknown
    \/ GetMetadata
    \/ GetCacheParams
    \/ GetDataFormatMembers
    \/ AttachCacheParams

Spec == Init /\ [][Next]_vars

\* TextureImage: construction and accessors
ImageNext == TextureImageInit \/ GetPilImage \/ GetData

SpecImage == Init /\ [][ImageNext]_vars

\* RoRSound: a sound table read from the .dat file, and get_sounds calls
SoundInit ==
    /\ TextureIdle
    /\ ImageIdle
    /\ sound \in {[sound_items |-> [value |-> t]] : t \in SoundTables}
    /\ sound_call = None

SpecSound == SoundInit /\ [][GetSounds]_vars

---------------------------------------------------------------------------
(* Properties. *)

Constructed == pc = "done"

Tex == self[1]

Kind == args.input_data.kind

\* the frame an entry was made from, and the fragment number it carries
EntryFrame(entry) ==
    IF "part" \in DOMAIN entry.data.content
    THEN entry.data.content.of.frame
    ELSE entry.data.content.frame

EntryPart(entry) ==
    IF "part" \in DOMAIN entry.data.content THEN entry.data.content.part ELSE 0

\* the buffer of a frame of a palette-indexed source
BufferOf(frame, palettes) ==
    LET palette == IF frame.palette_number = None
                   THEN None
                   ELSE Some(palettes[1][frame.palette_number[1]].array)
    IN  TextureImage(get_picture_data(frame, palette),
                     Some(get_hotspot(frame))).value[1]

FragmentsOf(frame, a) ==
    IF a.custom_cutter = None
    THEN <<BufferOf(frame, a.palettes)>>
    ELSE cut(a.custom_cutter[1], BufferOf(frame, a.palettes))

ExpectedEntries(a) ==
    LET fr == get_frames(a.input_data, a.layer)
    IN  Concat([i \in 1..Len(fr) |-> FragmentsOf(fr[i], a)])

\* C1: for a palette-indexed source the entries of the constructed texture
\* are the concatenation, in frame order, of each frame's fragment list
\* (cut(buffer) with a cutter, the buffer alone without); so the fragments of
\* a frame precede those of the next frame, and a cutter returning 2
\* fragments on 3 frames gives the 6 entries f0a, f0b, f1a, f1b, f2a, f2b.
C1_EntriesAreFragmentsInFrameOrder ==
    (Constructed /\ Kind \in PaletteKinds) =>
        /\ Tex.frames = ExpectedEntries(args)
        /\ \A i, j \in 1..Len(Tex.frames) :
            i < j => EntryFrame(Tex.frames[i])[2] <= EntryFrame(Tex.frames[j])[2]
        /\ (args.custom_cutter = Some("split2")
              /\ Len(get_frames(args.input_data, args.layer)) = 3) =>
                [i \in 1..Len(Tex.frames) |->
                    <<EntryFrame(Tex.frames[i])[2], EntryPart(Tex.frames[i])>>]
                = <<<<1, 1>>, <<1, 2>>, <<2, 1>>, <<2, 2>>, <<3, 1>>, <<3, 2>>>>

C1_Witness ==
    /\ Constructed
    /\ Kind \in PaletteKinds
    /\ args.custom_cutter = Some("split2")
    /\ Len(get_frames(args.input_data, args.layer)) = 3
    /\ Len(Tex.frames) = 6

\* C2: for an SLD source, when layer 0 is requested and has no frames the
\* constructor enumerates layer 1 and makes one entry per layer-1 frame, in
\* order; otherwise it enumerates the requested layer only and the entries
\* are that layer's frames.
C2_SLDFallbackToLayerOne ==
    (Constructed /\ Kind = "SLD") =>
        LET used == IF args.layer = 0 /\ get_frames(args.input_data, 0) = <<>>
                    THEN 1
                    ELSE args.layer
        IN  /\ calls.get_frames =
                 IF used = args.layer THEN <<args.layer>> ELSE <<0, 1>>
            /\ Len(Tex.frames) = Len(get_frames(args.input_data, used))
            /\ \A i \in 1..Len(Tex.frames) :
                EntryFrame(Tex.frames[i]) = <<used, i>>

C2_Witness ==
    /\ Constructed
    /\ Kind = "SLD"
    /\ args.layer = 0
    /\ get_frames(args.input_data, 0) = <<>>
    /\ Len(get_frames(args.input_data, 1)) = 2
    /\ Len(Tex.frames) = 2

PaletteRun == pc \in {"for_palette", "done", "failed"} /\ Kind \in PaletteKinds

\* no lookup for a frame without a palette number, and none but its own
\* number for the others
LookupsOnlyForNumberedFrames ==
    \A i \in 1..Len(calls.lookups) :
        LET l == calls.lookups[i]
            frame == get_frames(args.input_data, args.layer)[l.frame[2]]
        IN  frame.palette_number = Some(l.key)

C4_UnknownSourceFails ==
    (pc # "idle" /\ Kind \notin PaletteKinds \cup {"SLD", "BlendingMode"}) =>
        /\ pc = "failed"
        /\ error = Some(UnknownSourceType(Kind))
        /\ error[1].arg = Kind
        /\ calls = NoCalls
        /\ Tex.frames = <<>>

C4_Witness ==
    /\ pc = "failed"
    /\ Kind = "GenieStructure"
    /\ args.custom_cutter # None
    /\ args.palettes # None

\* C5: get_sounds of a RoR sound returns the resource_id of every item of
\* the sound table, in table order and with duplicates, whatever civ_id is
\* and also when it is left out.
C5_AllResourceIdsInTableOrder ==
    sound_call # None =>
        LET items == sound.sound_items.value
        IN  /\ Len(sound_call[1].result) = Len(items)
            /\ \A i \in 1..Len(items) :
                sound_call[1].result[i] = items[i].resource_id.value

C5_Witness ==
    /\ sound_call # None
    /\ sound_call[1].civ = Some(2)
    /\ sound_call[1].result = <<5, 5, 9>>

\* the latest TextureImage call and its outcome
ImageCalled == image # None

PictureArg == image_arg[1].picture_data

\* C6 as stated: a value that is neither a bitmap nor a 3-dimensional
\* numeric array always fails with the invalid-input-kind error (ValueError).
C6_Non3DAlwaysValueError ==
    (ImageCalled
        /\ PictureArg.type # "Image"
        /\ ~(PictureArg.type = "ndarray" /\ Len(PictureArg.shape) = 3)) =>
            /\ ~image[1].ok
            /\ image[1].error[1].exc = "ValueError"

\* C6, amended: a value that is neither a bitmap nor a numeric array always
\* fails with ValueError naming its type and no object is made; a numeric
\* array is never refused for its number of dimensions: with 2 or more it is
\* accepted, height and width read from its first two axes, and with fewer
\* it fails with IndexError.
C6_NonArrayValueError ==
    ImageCalled =>
        /\ PictureArg.type \notin {"Image", "ndarray"} =>
            /\ ~image[1].ok
            /\ image[1].value = None
            /\ image[1].error = Some(ValueError(PictureArg.type))
        /\ (PictureArg.type = "ndarray" /\ Len(PictureArg.shape) >= 2) =>
            /\ image[1].ok
            /\ image[1].value[1].height = PictureArg.shape[1]
            /\ image[1].value[1].width = PictureArg.shape[2]
        /\ (PictureArg.type = "ndarray" /\ Len(PictureArg.shape) < 2) =>
            /\ ~image[1].ok
            /\ image[1].error[1].exc = "IndexError"

C6_Witness ==
    /\ ImageCalled
    /\ PictureArg.type = "list"
    /\ ~image[1].ok
    /\ image[1].error[1].exc = "ValueError"

\* before the packer/encoder writes, the cache parameters are None and so
\* was every value get_cache_params returned
NoneUntilAttached ==
    /\ (self # None /\ attached = 0) => get_cache_params(Tex) = <<None, None>>
    /\ (ret.op = "get_cache_params" /\ ret.attached = 0) =>
            ret.value = Some(<<None, None>>)

\* C7: until the packer/encoder has written its results, the packer hints
\* and the compression parameters are None in every state of the texture,
\* whatever was constructed and whichever accessor ran, and every
\* get_cache_params call returned (None, None); no step other than that
\* write changes them.
C7_CacheParamsNoneUntilAttached ==
    /\ []NoneUntilAttached
    /\ [][(self # None /\ attached' = attached) =>
            get_cache_params(self'[1]) = get_cache_params(Tex)]_vars

C7_Witness ==
    /\ Constructed
    /\ attached = 0
    /\ Len(Tex.frames) > 0
    /\ ret.op = "get_cache_params"
    /\ ret.value = Some(<<None, None>>)

\* C8: once the packer hints are set the entry sequence never changes: every
\* step that adds entries is taken while the hints are None.
C8_NoEntryAfterHints ==
    [][(self # None /\ Tex.best_packer_hints # None) =>
            self'[1].frames = Tex.frames]_vars

C8_Witness ==
    /\ Constructed
    /\ attached = 1
    /\ Tex.best_packer_hints # None
    /\ Len(Tex.frames) = 3
    /\ ret.op = "get_metadata"
    /\ ret.attached = 1

\* C9: a BlendingMode source with M alpha masks gives M entries, the i-th
\* made from the i-th mask, each with hotspot (0, TILE_HALFSIZE["y"]),
\* whatever palettes, cutter and layer are; nothing is looked up or cut.
C9_OneEntryPerAlphaMask ==
    (Constructed /\ Kind = "BlendingMode") =>
        /\ Len(Tex.frames) = Len(args.input_data.alphamasks)
        /\ \A i \in 1..Len(Tex.frames) :
            /\ Tex.frames[i].data = tile_get_picture_data(args.input_data.alphamasks[i])
            /\ Tex.frames[i].hotspot = <<0, TILE_HALFSIZE.y>>
        /\ calls = NoCalls

C9_Witness ==
    /\ Constructed
    /\ Kind = "BlendingMode"
    /\ Len(args.input_data.alphamasks) = 3
    /\ Len(Tex.frames) = 3
    /\ args.custom_cutter # None
    /\ args.palettes # None
    /\ args.layer = 1

\* C10: for an SLD source the cutter is never called, also when one is
\* given: every iterated frame adds exactly one whole entry, in frame order,
\* and the constructed texture has as many entries as the layer last
\* enumerated has frames.
C10_SLDNeverCut ==
    (pc \in {"for_sld", "done"} /\ Kind = "SLD") =>
        /\ calls.cut = <<>>
        /\ Len(Tex.frames) = Len(calls.picture)
        /\ \A i \in 1..Len(Tex.frames) :
            /\ EntryPart(Tex.frames[i]) = 0
            /\ EntryFrame(Tex.frames[i]) = calls.picture[i].frame
            /\ EntryFrame(Tex.frames[i])[2] = i
        /\ Constructed =>
            Len(Tex.frames) =
                Len(get_frames(args.input_data,
                               calls.get_frames[Len(calls.get_frames)]))

C10_Witness ==
    /\ Constructed
    /\ Kind = "SLD"
    /\ args.custom_cutter = Some("split2")
    /\ Len(Tex.frames) = 3
    /\ calls.cut = <<>>

====
